---- MODULE Spec2Model ----
(***************************************************************************)
(* ISteamNetworkingMessages (src/NetworkCPP/ISteamNetworkingMessages.h).   *)
(*                                                                         *)
(* The interface is pure virtual: the header holds no method bodies.  What *)
(* it does hold is the contract of every method and of the two callbacks,  *)
(* in the documentation comments above each declaration.  This module is   *)
(* the state machine those comments describe: one action per method, one   *)
(* per transport step the comments name (arrival of a message, loss or     *)
(* duplication of an unreliable message, completion or failure of the      *)
(* handshake, idle timeout, closure by the peer).  Where the header leaves *)
(* a point open the model keeps every outcome the header allows.           *)
(***************************************************************************)
EXTENDS Naturals, Sequences, FiniteSets

\* ---------------------------------------------------------------- bounds
NumIdentities == 2
MaxChannel    == 1
MaxTraffic    == 2
MaxInbox      == 2
MaxMessages   == 2

Identity == 1..NumIdentities
Channel  == 0..MaxChannel

\* nSendFlags, a mask of k_nSteamNetworkingSend_xxx options: the two options
\* the header names or implies.
SendFlags == SUBSET {"Reliable", "AutoRestartBrokenSession"}

VARIABLES
    session,     \* session[e][p]: the session endpoint e holds with peer p
    net,         \* messages sent and not yet arrived or lost
    inbox,       \* inbox[e]: messages arrived at e, not yet read, oldest first
    nCopies,     \* how many copies the network made so far
    nSent,       \* how many messages SendMessageToUser accepted so far
    delivered,   \* delivered[e]: the reliable messages ReceiveMessagesOnChannel returned at e, in order
    quiet,       \* quiet[e][p]: "no"; or, while nothing was sent to p or arrived from p since e
                 \* closed its session with p, "closed" (or "absent": there was none to close)
    ret,         \* the call this step made and what it returned (NoCall: a transport step)
    posted       \* the callback this step posted (NoCallback: none)

vars == <<session, net, inbox, nSent, nCopies, delivered, quiet, ret, posted>>

\* ------------------------------------------------------------ the data
\* ESteamNetworkingConnectionState, as far as the header names it.
NoSession == [state |-> "None", accepted |-> FALSE, open |-> {}]

NoCall == [op |-> "none"]
NoCallback == [type |-> "none"]

\* SteamNetworkingMessagesSessionRequest_t: m_identityRemote is the user who
\* wants to talk to us.
SessionRequest(e, p) == [type |-> "SessionRequest", at |-> e, m_identityRemote |-> p]

\* SteamNetworkingMessagesSessionFailed_t: m_info.m_identityRemote is who the
\* session was with.
SessionFailed(e, p) == [type |-> "SessionFailed", at |-> e, m_identityRemote |-> p]

Exists(e, p) == session[e][p].state # "None"

\* A session request that has been posted and not yet answered.
Pending(e, p) == session[e][p].state = "Connecting" /\ ~session[e][p].accepted

\* Readable, forgetting the channel.
ReadableAnyChannel(m, e, c) == session[e][m.src].accepted

\* A message e may read on channel c: it arrived on that channel, from a peer
\* whose session e has accepted.
Readable(m, e, c) == m.ch = c /\ session[e][m.src].accepted

RECURSIVE Indices(_, _, _, _)
\* The positions i >= from of box that hold a message e may read on channel c.
Indices(box, e, c, from) ==
    IF from > Len(box) THEN <<>>
    ELSE IF Readable(box[from], e, c)
         THEN <<from>> \o Indices(box, e, c, from + 1)
         ELSE Indices(box, e, c, from + 1)

\* Take, forgetting nMaxMessages.
TakeAll(box, e, c, nMaxMessages) == Indices(box, e, c, 1)

\* The positions ReceiveMessagesOnChannel(c, nMaxMessages) takes from e's
\* inbox: the oldest nMaxMessages readable ones, fewer when fewer are there.
Take(box, e, c, nMaxMessages) ==
    LET idx == Indices(box, e, c, 1)
    IN  IF Len(idx) <= nMaxMessages THEN idx ELSE SubSeq(idx, 1, nMaxMessages)

RECURSIVE Without(_, _, _)
\* box without the positions in drop.
Without(box, drop, i) ==
    IF i > Len(box) THEN <<>>
    ELSE IF i \in drop THEN Without(box, drop, i + 1)
         ELSE <<box[i]>> \o Without(box, drop, i + 1)

Range(s) == {s[i] : i \in 1..Len(s)}

\* The messages of box that p did not send.
PurgePeer(box, p) ==
    Without(box, {i \in 1..Len(box) : box[i].src = p}, 1)

\* The messages of box that p did not send on channel c.
PurgeChannel(box, p, c) ==
    Without(box, {i \in 1..Len(box) : box[i].src = p /\ box[i].ch = c}, 1)

Init ==
    /\ session = [e \in Identity |-> [p \in Identity |-> NoSession]]
    /\ net = {}
    /\ inbox = [e \in Identity |-> <<>>]
    /\ nSent = 0
    /\ nCopies = 0
    /\ delivered = [e \in Identity |-> <<>>]
    /\ quiet = [e \in Identity |-> [p \in Identity |-> "no"]]
    /\ ret = NoCall
    /\ posted = NoCallback

\* ------------------------------------------------------- SendMessageToUser
\* What SendMessageToUser returns: k_EResultNoConnection when the session is
\* broken and the caller did not ask for it to be restarted.
SendResult(s, nSendFlags) ==
    IF s.state = "ProblemDetectedLocally" /\ "AutoRestartBrokenSession" \notin nSendFlags
    THEN "k_EResultNoConnection"
    ELSE "k_EResultOK"

\* Accepted, starting the handshake over.
AcceptedAnew(s) == [s EXCEPT !.accepted = TRUE, !.state = "Connecting"]

\* The session once the local side accepted it.
Accepted(s) == [s EXCEPT !.accepted = TRUE]

\* SendSession, leaving a pending request unanswered.
SendSessionUnaccepted(s, nRemoteChannel) ==
    IF s.state \in {"None", "ProblemDetectedLocally"}
    THEN [state |-> "Connecting", accepted |-> TRUE, open |-> s.open \cup {nRemoteChannel}]
    ELSE [s EXCEPT !.open = @ \cup {nRemoteChannel}]

\* The session after a send on nRemoteChannel was accepted: created if there
\* was none, restarted if it was broken, and accepted in any case.
SendSession(s, nRemoteChannel) ==
    IF s.state \in {"None", "ProblemDetectedLocally"}
    THEN [state |-> "Connecting", accepted |-> TRUE, open |-> s.open \cup {nRemoteChannel}]
    ELSE [Accepted(s) EXCEPT !.open = @ \cup {nRemoteChannel}]

SendMessageToUser(e, identityRemote, nSendFlags, nRemoteChannel) ==
    LET s == session[e][identityRemote]
        r == SendResult(s, nSendFlags)
        m == [id |-> nSent + 1, src |-> e, dst |-> identityRemote, ch |-> nRemoteChannel,
              reliable |-> "Reliable" \in nSendFlags, copy |-> 0]
    IN  /\ e # identityRemote
        /\ nSent + nCopies < MaxTraffic
        /\ ret' = [op |-> "SendMessageToUser", at |-> e, peer |-> identityRemote,
                   ch |-> nRemoteChannel, before |-> s, val |-> r]
        /\ posted' = NoCallback
        /\ IF r = "k_EResultOK"
           THEN /\ session' = [session EXCEPT ![e][identityRemote] = SendSession(s, nRemoteChannel)]
                /\ net' = net \cup {m}
                /\ nSent' = nSent + 1
                /\ quiet' = [quiet EXCEPT ![e][identityRemote] = "no"]
           ELSE UNCHANGED <<session, net, nSent, quiet>>
        /\ UNCHANGED <<inbox, nCopies, delivered>>

\* ------------------------------------------------ ReceiveMessagesOnChannel
ReceiveMessagesOnChannel(e, nLocalChannel, nMaxMessages) ==
    LET idx == Take(inbox[e], e, nLocalChannel, nMaxMessages)
        out == [i \in 1..Len(idx) |-> inbox[e][idx[i]]]
    IN  /\ ret' = [op |-> "ReceiveMessagesOnChannel", at |-> e, ch |-> nLocalChannel,
                   max |-> nMaxMessages, val |-> out]
        /\ posted' = NoCallback
        /\ inbox' = [inbox EXCEPT ![e] = Without(inbox[e], Range(idx), 1)]
        /\ delivered' = [delivered EXCEPT ![e] = @ \o SelectSeq(out, LAMBDA m : m.reliable)]
        /\ UNCHANGED <<session, net, nSent, nCopies, quiet>>

\* --------------------------------------------------- AcceptSessionWithUser
AcceptSessionWithUser(e, identityRemote) ==
    /\ e # identityRemote
    /\ ret' = [op |-> "AcceptSessionWithUser", at |-> e, peer |-> identityRemote,
               val |-> Exists(e, identityRemote)]
    /\ posted' = NoCallback
    /\ IF Exists(e, identityRemote)
       THEN session' = [session EXCEPT ![e][identityRemote] = Accepted(@)]
       ELSE UNCHANGED session
    /\ UNCHANGED <<net, inbox, nSent, nCopies, delivered, quiet>>

\* ---------------------------------------------------- CloseSessionWithUser
\* Closed, keeping a broken session for a later diagnosis.
ClosedUnlessBroken(s) == IF s.state = "ProblemDetectedLocally" THEN s ELSE NoSession

\* The session once it was closed: its resources are freed, nothing is left.
Closed(s) == NoSession

CloseSessionWithUser(e, identityRemote) ==
    /\ e # identityRemote
    /\ ret' = [op |-> "CloseSessionWithUser", at |-> e, peer |-> identityRemote,
               val |-> Exists(e, identityRemote)]
    /\ posted' = NoCallback
    /\ session' = [session EXCEPT ![e][identityRemote] = Closed(@)]
    /\ inbox' = [inbox EXCEPT ![e] = PurgePeer(@, identityRemote)]
    /\ quiet' = [quiet EXCEPT ![e][identityRemote] = IF Exists(e, identityRemote) THEN "closed" ELSE "absent"]
    /\ UNCHANGED <<net, nSent, nCopies, delivered>>

\* ---------------------------------------------------- CloseChannelWithUser
\* ChannelClosed, closing the session with the first channel.
ChannelClosedAll(s, nLocalChannel) == Closed(s)

\* The session once nLocalChannel was closed: closed itself when that was
\* the last open channel.
ChannelClosed(s, nLocalChannel) ==
    IF s.open \ {nLocalChannel} = {} THEN Closed(s)
    ELSE [s EXCEPT !.open = @ \ {nLocalChannel}]

CloseChannelWithUser(e, identityRemote, nLocalChannel) ==
    /\ e # identityRemote
    /\ ret' = [op |-> "CloseChannelWithUser", at |-> e, peer |-> identityRemote,
               ch |-> nLocalChannel, before |-> session[e][identityRemote],
               val |-> Exists(e, identityRemote)]
    /\ posted' = NoCallback
    /\ IF Exists(e, identityRemote)
       THEN LET s == ChannelClosed(session[e][identityRemote], nLocalChannel)
            IN  /\ session' = [session EXCEPT ![e][identityRemote] = s]
                /\ inbox' = [inbox EXCEPT ![e] =
                                IF s.state = "None" THEN PurgePeer(@, identityRemote)
                                ELSE PurgeChannel(@, identityRemote, nLocalChannel)]
                /\ quiet' = [quiet EXCEPT ![e][identityRemote] =
                                IF s.state = "None" THEN "closed" ELSE @]
       ELSE UNCHANGED <<session, inbox, quiet>>
    /\ UNCHANGED <<net, nSent, nCopies, delivered>>

\* ------------------------------------------------ GetSessionConnectionInfo
\* SteamNetConnectionInfo_t::m_eState, or k_ESteamNetworkingConnectionState_None
\* if no connection exists with the peer.
ConnectionState(e, identityRemote) == session[e][identityRemote].state

GetSessionConnectionInfo(e, identityRemote) ==
    /\ e # identityRemote
    /\ ret' = [op |-> "GetSessionConnectionInfo", at |-> e, peer |-> identityRemote,
               val |-> ConnectionState(e, identityRemote)]
    /\ posted' = NoCallback
    /\ UNCHANGED <<session, net, inbox, nSent, nCopies, delivered, quiet>>

\* ------------------------------------------------------ the transport
\* Deliverable, with no order kept.
DeliverableAnyOrder(m) == TRUE

\* Whether m may arrive now.  A reliable message arrives after every reliable
\* message sent before it to the same host on the same channel; an unreliable
\* one arrives in any order.
Deliverable(m) ==
    m.reliable =>
        \A o \in net : (o.reliable /\ o.src = m.src /\ o.dst = m.dst /\ o.ch = m.ch)
                         => o.id >= m.id

\* ArrivalCallbacks, posting a request whatever the session.
ArrivalCallbacksAlways(e, p) == {NoCallback, SessionRequest(e, p)}

\* The callbacks the arrival of a message from p may post at e: a session
\* request when e has no session with p, and again, periodically, while e
\* leaves the request unanswered.
ArrivalCallbacks(e, p) ==
    IF ~Exists(e, p) THEN {SessionRequest(e, p)}
    ELSE IF Pending(e, p) THEN {NoCallback, SessionRequest(e, p)}
    ELSE {NoCallback}

\* The session of the receiver after a message arrived on channel c.
ArrivalSession(s, c) ==
    IF s.state = "None"
    THEN [state |-> "Connecting", accepted |-> FALSE, open |-> {c}]
    ELSE [s EXCEPT !.open = @ \cup {c}]

\* The network copies an unreliable message: it may be received more than once.
Duplicate(m) ==
    /\ m \in net
    /\ ~m.reliable
    /\ nSent + nCopies < MaxTraffic
    /\ net' = net \cup {[m EXCEPT !.copy = nCopies + 1]}
    /\ nCopies' = nCopies + 1
    /\ ret' = NoCall
    /\ posted' = NoCallback
    /\ UNCHANGED <<session, inbox, nSent, delivered, quiet>>

\* m arrives at its destination.
Arrive(m) ==
    LET e == m.dst
        p == m.src
    IN  /\ m \in net
        /\ Deliverable(m)
        /\ Len(inbox[e]) < MaxInbox
        /\ net' = net \ {m}
        /\ ret' = NoCall
        /\ IF session[e][p].state = "ProblemDetectedLocally"
           THEN /\ posted' = NoCallback
                /\ UNCHANGED <<session, inbox, quiet>>
           ELSE /\ posted' \in ArrivalCallbacks(e, p)
                /\ session' = [session EXCEPT ![e][p] = ArrivalSession(@, m.ch)]
                /\ inbox' = [inbox EXCEPT ![e] = Append(@, m)]
                /\ quiet' = [quiet EXCEPT ![e][p] = "no"]
        /\ UNCHANGED <<nSent, nCopies, delivered>>

\* m is lost.  An unreliable message may be dropped at any time; a reliable
\* one is lost only when the sender's session, which would send it again, is
\* gone or broken.
Lose(m) ==
    /\ m \in net
    /\ m.reliable => session[m.src][m.dst].state \in {"None", "ProblemDetectedLocally"}
    /\ net' = net \ {m}
    /\ ret' = NoCall
    /\ posted' = NoCallback
    /\ UNCHANGED <<session, inbox, nSent, nCopies, delivered, quiet>>

\* The handshake completes: both sides are willing to talk.
Connected(e, p) ==
    /\ e # p
    /\ session[e][p].state = "Connecting"
    /\ session[e][p].accepted
    /\ session[p][e].state \in {"Connecting", "Connected"}
    /\ session[p][e].accepted
    /\ session' = [session EXCEPT ![e][p].state = "Connected"]
    /\ ret' = NoCall
    /\ posted' = NoCallback
    /\ UNCHANGED <<net, inbox, nSent, nCopies, delivered, quiet>>

\* Fail, with no callback posted.
FailUnposted(e, p) ==
    /\ e # p
    /\ session[e][p].state \in {"Connecting", "Connected"}
    /\ session[e][p].accepted
    /\ session' = [session EXCEPT ![e][p].state = "ProblemDetectedLocally"]
    /\ ret' = NoCall
    /\ posted' = NoCallback
    /\ UNCHANGED <<net, inbox, nSent, nCopies, delivered, quiet>>

\* The handshake fails, or communications are disrupted in an unusual way:
\* SteamNetworkingMessagesSessionFailed_t is posted.
Fail(e, p) ==
    /\ e # p
    /\ session[e][p].state \in {"Connecting", "Connected"}
    /\ session[e][p].accepted
    /\ session' = [session EXCEPT ![e][p].state = "ProblemDetectedLocally"]
    /\ ret' = NoCall
    /\ posted' = SessionFailed(e, p)
    /\ UNCHANGED <<net, inbox, nSent, nCopies, delivered, quiet>>

\* Nothing travels between e and p.
Unused(e, p) ==
    \A m \in net : ~(m.src = e /\ m.dst = p) /\ ~(m.src = p /\ m.dst = e)

\* IdleTimeout, posting the session as failed.
IdleTimeoutPosted(e, p) ==
    /\ e # p
    /\ Exists(e, p)
    /\ Unused(e, p)
    /\ session' = [session EXCEPT ![e][p] = Closed(@)]
    /\ inbox' = [inbox EXCEPT ![e] = PurgePeer(@, p)]
    /\ ret' = NoCall
    /\ posted' = SessionFailed(e, p)
    /\ UNCHANGED <<net, nSent, nCopies, delivered, quiet>>

\* A session that went unused is timed out: no callback is posted.
IdleTimeout(e, p) ==
    /\ e # p
    /\ Exists(e, p)
    /\ Unused(e, p)
    /\ session' = [session EXCEPT ![e][p] = Closed(@)]
    /\ inbox' = [inbox EXCEPT ![e] = PurgePeer(@, p)]
    /\ ret' = NoCall
    /\ posted' = NoCallback
    /\ UNCHANGED <<net, nSent, nCopies, delivered, quiet>>

\* The peer closed its side of an established session: no callback is posted.
ClosedByPeer(e, p) ==
    /\ e # p
    /\ session[e][p].state = "Connected"
    /\ ~Exists(p, e)
    /\ session' = [session EXCEPT ![e][p] = Closed(@)]
    /\ inbox' = [inbox EXCEPT ![e] = PurgePeer(@, p)]
    /\ ret' = NoCall
    /\ posted' = NoCallback
    /\ UNCHANGED <<net, nSent, nCopies, delivered, quiet>>

\* ------------------------------------------------------------------ Next
Next ==
    \/ \E e, p \in Identity, f \in SendFlags, c \in Channel : SendMessageToUser(e, p, f, c)
    \/ \E e \in Identity, c \in Channel, n \in 1..MaxMessages : ReceiveMessagesOnChannel(e, c, n)
    \/ \E e, p \in Identity : AcceptSessionWithUser(e, p)
    \/ \E e, p \in Identity : CloseSessionWithUser(e, p)
    \/ \E e, p \in Identity, c \in Channel : CloseChannelWithUser(e, p, c)
    \/ \E e, p \in Identity : GetSessionConnectionInfo(e, p)
    \/ \E m \in net : Arrive(m)
    \/ \E m \in net : Duplicate(m)
    \/ \E m \in net : Lose(m)
    \/ \E e, p \in Identity : Connected(e, p)
    \/ \E e, p \in Identity : Fail(e, p)
    \/ \E e, p \in Identity : IdleTimeout(e, p)
    \/ \E e, p \in Identity : ClosedByPeer(e, p)

Spec == Init /\ [][Next]_vars

\* ================================================================ claims
\* The messages of e's inbox that e may read on channel c, oldest first.
PendingOn(e, c) == SelectSeq(inbox[e], LAMBDA m : Readable(m, e, c))

\* This step is the arrival at e of a message from p.
Arrival(e, p) ==
    /\ ret' = NoCall
    /\ \E m \in net : m.src = p /\ m.dst = e /\ inbox'[e] = Append(inbox[e], m)

\* C1: of the reliable messages a peer sent to an endpoint on one channel,
\* ReceiveMessagesOnChannel returns each at most once, in the order they were
\* sent (ids grow with the order of sending).
C1_ReliableOnceInOrder ==
    \A e \in Identity : \A i, j \in 1..Len(delivered[e]) :
        (i < j /\ delivered[e][i].src = delivered[e][j].src
               /\ delivered[e][i].ch = delivered[e][j].ch)
        => delivered[e][i].id < delivered[e][j].id

\* Two reliable messages of one peer on one channel were both returned.
C1_Witness ==
    \E e \in Identity :
        /\ Len(delivered[e]) = 2
        /\ delivered[e][1].src = delivered[e][2].src
        /\ delivered[e][1].ch = delivered[e][2].ch

\* C2: every message ReceiveMessagesOnChannel(C) returns was sent to the
\* caller with nRemoteChannel = C.
C2_ChannelIsolation ==
    ret.op = "ReceiveMessagesOnChannel" =>
        \A i \in 1..Len(ret.val) : ret.val[i].ch = ret.ch /\ ret.val[i].dst = ret.at

\* A receive returned a message while a message of another channel, from an
\* accepted peer, stayed in the inbox.
C2_Witness ==
    /\ ret.op = "ReceiveMessagesOnChannel"
    /\ Len(ret.val) > 0
    /\ \E i \in 1..Len(inbox[ret.at]) :
          /\ inbox[ret.at][i].ch # ret.ch
          /\ session[ret.at][inbox[ret.at][i].src].accepted

C4_NoneAfterClose ==
    \A e, p \in Identity :
        quiet[e][p] # "no" =>
            /\ ConnectionState(e, p) = "None"
            /\ (ret.op = "GetSessionConnectionInfo" /\ ret.at = e /\ ret.peer = p)
               => ret.val = "None"

\* The state was queried after a session that existed was closed.
C4_Witness ==
    /\ ret.op = "GetSessionConnectionInfo"
    /\ quiet[ret.at][ret.peer] = "closed"

\* C5: AcceptSessionWithUser(P) returns false when there is no session with
\* P, and returns true and changes nothing when the session is connected.
C5_AcceptResult ==
    [][\A e, p \in Identity :
          (ret'.op = "AcceptSessionWithUser" /\ ret'.at = e /\ ret'.peer = p) =>
              /\ ~Exists(e, p) => (ret'.val = FALSE /\ session' = session)
              /\ session[e][p].state = "Connected" =>
                    /\ ret'.val = TRUE
                    /\ UNCHANGED <<session, net, inbox, nSent, nCopies, delivered, quiet>>
      ]_vars

\* Accept was called on a connected session.
C5_Witness ==
    /\ ret.op = "AcceptSessionWithUser"
    /\ ret.val = TRUE
    /\ session[ret.at][ret.peer].state = "Connected"

\* C6: a send to P while a request of P is pending leaves the session as
\* AcceptSessionWithUser(P) would (the channel sent on is open besides), and
\* every message of P in the inbox can be read with no further call.
C6_SendAccepts ==
    [][\A e, p \in Identity :
          (ret'.op = "SendMessageToUser" /\ ret'.at = e /\ ret'.peer = p /\ Pending(e, p)) =>
              /\ ret'.val = "k_EResultOK"
              /\ session'[e][p] = [Accepted(session[e][p]) EXCEPT !.open = @ \cup {ret'.ch}]
              /\ session'[e][p].accepted
              /\ \A i \in 1..Len(inbox'[e]) :
                    inbox'[e][i].src = p => session'[e][inbox'[e][i].src].accepted
      ]_vars

\* A send was made while a request was pending, with a message of the peer
\* waiting in the inbox.
C6_Witness ==
    /\ ret.op = "SendMessageToUser"
    /\ ret.before.state = "Connecting"
    /\ ~ret.before.accepted
    /\ \E i \in 1..Len(inbox[ret.at]) : inbox[ret.at][i].src = ret.peer

C8_LastChannelCloses ==
    [][\A e, p \in Identity :
          /\ (ret'.op = "CloseChannelWithUser" /\ ret'.at = e /\ ret'.peer = p /\ Exists(e, p))
             => LET rest == session[e][p].open \ {ret'.ch}
                IN  /\ session'[e][p].state = "None" <=> rest = {}
                    /\ rest # {} =>
                          /\ session'[e][p] = [session[e][p] EXCEPT !.open = rest]
                          /\ \A i \in 1..Len(inbox[e]) :
                                (inbox[e][i].src # p \/ inbox[e][i].ch # ret'.ch)
                                => inbox[e][i] \in Range(inbox'[e])
          /\ (Arrival(e, p) /\ ~Exists(e, p)) => posted' = SessionRequest(e, p)
      ]_vars

\* A channel was closed and the session lives on with the other one.
C8_Witness ==
    /\ ret.op = "CloseChannelWithUser"
    /\ ret.before.open = Channel
    /\ session[ret.at][ret.peer].state # "None"
    /\ session[ret.at][ret.peer].open = Channel \ {ret.ch}

C10_ReceiveBounded ==
    /\ [](\A e \in Identity, c \in Channel, n \in 1..MaxMessages :
             ENABLED ReceiveMessagesOnChannel(e, c, n))
    /\ [][\A e \in Identity :
             (ret'.op = "ReceiveMessagesOnChannel" /\ ret'.at = e) =>
                LET pend == PendingOn(e, ret'.ch)
                    k == Len(ret'.val)
                IN  /\ k <= ret'.max
                    /\ k <= Len(pend)
                    /\ (k < ret'.max => k = Len(pend))
                    /\ ret'.val = SubSeq(pend, 1, k)
                    /\ Len(inbox'[e]) = Len(inbox[e]) - k
                    /\ SelectSeq(inbox'[e], LAMBDA m : Readable(m, e, ret'.ch))
                          = SubSeq(pend, k + 1, Len(pend))
         ]_vars

\* A receive returned nMaxMessages messages and left one pending on the channel.
C10_Witness ==
    /\ ret.op = "ReceiveMessagesOnChannel"
    /\ Len(ret.val) = ret.max
    /\ Len(PendingOn(ret.at, ret.ch)) > 0

====
